---- MODULE Spec2Model ----
(***************************************************************************)
(* Gathering membership lifecycle of Gather_Grow: the relational rows      *)
(* `gatherings` and `gathering_members`, the service operations of         *)
(* MemberService / GatheringService that change them, and the row locks    *)
(* (SELECT ... FOR UPDATE on PostgreSQL, READ COMMITTED) that the          *)
(* operations take when several of them run at once.                       *)
(*                                                                         *)
(* Spec      every operation is one atomic step (one request at a time).   *)
(* SpecConc  join_gathering and approve_member run as transactions of      *)
(*           several statements that interleave with each other and with   *)
(*           the other membership operations.                              *)
(***************************************************************************)
EXTENDS Integers, FiniteSets, Sequences, TLC

\* ---------------------------------------------------------------- bounds
NumUsers == 3
MaxGatherings == 1
MaxCapacity == 3
MaxMemberId == 3
NumProcs == 2

Users == 1..NumUsers
GatheringIds == 1..MaxGatherings
MemberIds == 1..MaxMemberId
Procs == 1..NumProcs

\* serializer lower bound of max_members on creation
MinCapacity == 2

VARIABLES
    gatherings,     \* table gatherings: id -> row
    members,        \* table gathering_members: set of rows
    nextGathering,  \* next primary key of gatherings
    nextMember,     \* next primary key of gathering_members
    tx,             \* per worker: the transaction it is running
    last,           \* the call completed by the latest step, with its result
    conns,          \* websocket connections: id -> consumer instance
    groups,         \* channel layer: gathering id -> connections in chat_<id>
    chat_messages,  \* table chat_messages: set of rows
    nextMessage,    \* next primary key of chat_messages
    user_message_times, \* consumers.py:19, user id -> times of the frames let through
    frames,         \* connection id -> frame sent to that client by the latest step
    now,            \* the clock, in seconds
    cache,          \* the shared cache: key -> [value, expires]
    handled,        \* identifier -> times at which the decorated handler ran
    users,          \* table users: id -> row
    nextUser,       \* next primary key of users
    questions,      \* table questions: set of rows
    answers,        \* table answers: set of rows
    nextPost        \* next primary keys of questions and of answers

\* the websocket and HTTP side, which the membership services never touch
web == <<conns, groups, chat_messages, nextMessage, user_message_times, frames,
         now, cache, handled>>

\* accounts and the Q&A board, which neither the membership services nor the
\* consumer touch
site == <<users, nextUser, questions, answers, nextPost>>

vars == <<gatherings, members, nextGathering, nextMember, tx, last, web, site>>

\* ------------------------------------------------------- Gathering model
GatheringStatus == {"recruiting", "recruitment_complete", "in_progress", "finished"}

is_recruiting(g) == g.status = "recruiting"

\* variant: full only once current_members has passed max_members
is_full_strict(g) == g.current_members > g.max_members

is_full(g) == g.current_members >= g.max_members

\* variant: the counter grows but the status is never set to recruitment_complete
increment_members_keeps_status(g) ==
    [g EXCEPT !.current_members = g.current_members + 1]

increment_members(g) ==
    LET c == g.current_members + 1 IN
    [g EXCEPT !.current_members = c,
              !.status = IF c >= g.max_members THEN "recruitment_complete" ELSE g.status]

\* variant: the counter shrinks but recruitment_complete is not reopened
decrement_members_keeps_status(g) ==
    IF g.current_members > 0
    THEN [g EXCEPT !.current_members = g.current_members - 1]
    ELSE g

decrement_members(g) ==
    IF g.current_members > 0
    THEN [g EXCEPT !.current_members = g.current_members - 1,
                   !.status = IF g.status = "recruitment_complete"
                              THEN "recruiting" ELSE g.status]
    ELSE g

\* -------------------------------------------------- GatheringMember model
is_leader(m) == m.role = "leader"

is_approved(m) == m.status = "approved"

\* GatheringMember.approve: the member row and its gathering row afterwards
approve(m, g) ==
    IF m.status = "pending"
    THEN [m |-> [m EXCEPT !.status = "approved"], g |-> increment_members(g)]
    ELSE [m |-> m, g |-> g]

reject(m) ==
    IF m.status = "pending" THEN [m EXCEPT !.status = "rejected"] ELSE m

\* variant: the member is set inactive but the counter is not decremented
leave_keeps_counter(m, g) ==
    IF m.status = "approved"
    THEN [m |-> [m EXCEPT !.is_active = FALSE], g |-> g]
    ELSE [m |-> m, g |-> g]

\* GatheringMember.leave: the member row and its gathering row afterwards
leave(m, g) ==
    IF is_approved(m)
    THEN [m |-> [m EXCEPT !.is_active = FALSE], g |-> decrement_members(g)]
    ELSE [m |-> m, g |-> g]

\* ------------------------------------------------------------ ORM queries
NewMember(id, u, gid, role, status) ==
    [id |-> id, user |-> u, gathering |-> gid, role |-> role,
     status |-> status, is_active |-> TRUE]

\* GatheringMember.objects.filter(user=, gathering=, is_active=True).exists()
exists_active(rows, u, gid) ==
    \E r \in rows : r.user = u /\ r.gathering = gid /\ r.is_active

\* Meta.unique_together = [["user", "gathering"]]: the insert is refused
unique_together(rows, u, gid) ==
    \E r \in rows : r.user = u /\ r.gathering = gid

HasMember(rows, mid) == \E r \in rows : r.id = mid

MemberById(rows, mid) == CHOOSE r \in rows : r.id = mid

ActiveOf(rows, u, gid) ==
    {r \in rows : r.user = u /\ r.gathering = gid /\ r.is_active}

\* variant: the status filter of the query is missing
PendingOf_any_status(rows, u, gid) ==
    {r \in rows : r.user = u /\ r.gathering = gid /\ r.is_active}

PendingOf(rows, u, gid) ==
    {r \in ActiveOf(rows, u, gid) : r.status = "pending"}

UpdateRow(rows, old, new) == (rows \ {old}) \cup {new}

\* ------------------------------------------------------------- row locks
MemberLock(mid) == <<"member", mid>>
GatheringLock(gid) == <<"gathering", gid>>

\* variant: select_for_update(of=("self",)), only the member row is locked
ApproveLocks_member_only(m) == {<<"member", m.id>>}

\* select_related("gathering").select_for_update(): both joined rows
ApproveLocks(m) == {MemberLock(m.id), GatheringLock(m.gathering)}

\* Gathering.objects.select_for_update().get(id=gathering_id)
JoinLocks(gid) == {GatheringLock(gid)}

\* the row locks a transaction holds from its locking SELECT to its end
LocksOf(t) ==
    IF t.pc = "approve_locked" THEN ApproveLocks(t.m)
    ELSE IF t.pc = "join_locked" THEN JoinLocks(t.gid)
    ELSE IF t.pc = "remove_locked" THEN {MemberLock(t.mid)}
    ELSE {}

Held == UNION {LocksOf(tx[p]) : p \in Procs}

HeldByOthers(p) == UNION {LocksOf(tx[q]) : q \in Procs \ {p}}

\* -------------------------------------------------- outcomes of the checks
\* variant: the is_recruiting check is missing
join_outcome_skips_recruiting(g, seen, rows, u) ==
    IF seen THEN "already_joined"
    ELSE IF g.user = u THEN "own_gathering"
    ELSE IF g.current_members >= g.max_members THEN "full"
    ELSE IF \E r \in rows : r.user = u /\ r.gathering = g.id THEN "integrity_error"
    ELSE "ok"

\* variant: a second request for the same pair is not refused, neither by the
\* exists() check nor by the unique constraint
join_outcome_allows_duplicate(g, seen, rows, u) ==
    IF g.user = u THEN "own_gathering"
    ELSE IF g.status # "recruiting" THEN "not_recruiting"
    ELSE IF g.current_members >= g.max_members THEN "full"
    ELSE "ok"

\* MemberService.join_gathering: `seen` is the result of the exists() query,
\* `rows` the table at the time of the INSERT
join_outcome(g, seen, rows, u) ==
    IF seen THEN "already_joined"
    ELSE IF g.user = u THEN "own_gathering"
    ELSE IF ~is_recruiting(g) THEN "not_recruiting"
    ELSE IF is_full(g) THEN "full"
    ELSE IF unique_together(rows, u, g.id) THEN "integrity_error"
    ELSE "ok"

\* variant: the caller is not compared with the gathering's owner
approve_outcome_any_caller(m, g, u) ==
    IF m.status # "pending" THEN "not_pending"
    ELSE IF g.current_members >= g.max_members THEN "full"
    ELSE "ok"

approve_outcome(m, g, u) ==
    IF g.user # u THEN "not_leader"
    ELSE IF m.status # "pending" THEN "not_pending"
    ELSE IF is_full(g) THEN "full"
    ELSE "ok"

\* variant: the caller is not compared with the gathering's owner
reject_outcome_any_caller(m, g, u) ==
    IF m.status # "pending" THEN "not_pending" ELSE "ok"

reject_outcome(m, g, u) ==
    IF g.user # u THEN "not_leader"
    ELSE IF m.status # "pending" THEN "not_pending"
    ELSE "ok"

\* variant: the leader is not refused
leave_outcome_any_role(m) ==
    IF m.status # "approved" THEN "not_approved" ELSE "ok"

leave_outcome(m) ==
    IF is_leader(m) THEN "leader_cannot_leave"
    ELSE IF ~is_approved(m) THEN "not_approved"
    ELSE "ok"

\* variant: a finished gathering can be reopened
valid_transitions_reopens_finished(s) ==
    CASE s = "recruiting" -> {"recruitment_complete", "in_progress"}
      [] s = "recruitment_complete" -> {"recruiting", "in_progress"}
      [] s = "in_progress" -> {"finished"}
      [] OTHER -> {"recruiting"}

valid_transitions(s) ==
    CASE s = "recruiting" -> {"recruitment_complete", "in_progress"}
      [] s = "recruitment_complete" -> {"recruiting", "in_progress"}
      [] s = "in_progress" -> {"finished"}
      [] OTHER -> {}

\* variant: the check of the participant count is missing
delete_outcome_ignores_members(g, u) ==
    IF g.user # u THEN "not_leader"
    ELSE IF g.status \in {"in_progress", "finished"} THEN "in_progress_or_finished"
    ELSE "ok"

\* GatheringService.delete_gathering: the checks, in the order of the code
delete_outcome(g, u) ==
    IF g.user # u THEN "not_leader"
    ELSE IF g.status \in {"in_progress", "finished"} THEN "in_progress_or_finished"
    ELSE IF g.current_members > 1 THEN "has_members"
    ELSE "ok"

\* GatheringUpdateSerializer.validate_max_members / validate, for a request
\* that carries max_members only
update_valid(g, value) ==
    /\ ~(value < g.current_members)
    /\ g.status # "finished"
    /\ g.status # "in_progress"

\* ------------------------------------------------- websocket chat consumer
NumConns == 2
MaxTicks == 2

ConnIds == 1..NumConns

\* check_rate_limit(self, max_messages=5, time_window=10)
max_messages == 5
time_window == 10

\* the token of the query string: absent, not a valid access token, or a valid
\* one carrying a user id; id NumUsers + 1 is an account that no longer exists
Tokens ==
    {[kind |-> "missing", user_id |-> 0], [kind |-> "invalid", user_id |-> 1]}
        \cup {[kind |-> "valid", user_id |-> i] : i \in 1..(NumUsers + 1)}

\* ChatConsumer.get_user_from_token: the user, or 0 for None
get_user_from_token(token) ==
    IF token.kind # "valid" THEN 0
    ELSE IF token.user_id \in Users THEN token.user_id
    ELSE 0

\* variant: the status filter of the membership query is missing
check_member_permission_any_status(u, gid) ==
    IF gid \notin DOMAIN gatherings THEN FALSE
    ELSE IF gatherings[gid].user = u THEN TRUE
    ELSE \E r \in members : r.gathering = gid /\ r.user = u /\ r.is_active

\* ChatConsumer.check_member_permission
check_member_permission(u, gid) ==
    IF gid \notin DOMAIN gatherings THEN FALSE
    ELSE IF gatherings[gid].user = u THEN TRUE
    ELSE \E r \in members :
            r.gathering = gid /\ r.user = u /\ r.status = "approved" /\ r.is_active

\* variant: the limit is compared with > instead of >=
check_rate_limit_off_by_one(times, t) ==
    LET kept == SelectSeq(times, LAMBDA x : t - x < time_window) IN
    IF Len(kept) > max_messages
    THEN [ok |-> FALSE, times |-> kept]
    ELSE [ok |-> TRUE, times |-> Append(kept, t)]

\* ChatConsumer.check_rate_limit on the list kept for one user, at time t:
\* whether the frame passes, and the list afterwards
check_rate_limit(times, t) ==
    LET kept == SelectSeq(times, LAMBDA x : t - x < time_window) IN
    IF Len(kept) >= max_messages
    THEN [ok |-> FALSE, times |-> kept]
    ELSE [ok |-> TRUE, times |-> Append(kept, t)]

\* inbound frames: text that is not JSON, {"message": ""}, {"message": "hi"}
Inbound ==
    {[json |-> FALSE, message |-> ""], [json |-> TRUE, message |-> ""],
     [json |-> TRUE, message |-> "hi"]}

\* variant: an empty text is stored like any other
save_outcome_accepts_empty(gathering_exists, message_text) ==
    IF ~gathering_exists THEN "no_gathering" ELSE "ok"

\* ChatConsumer.save_message: the checks before the INSERT
save_outcome(gathering_exists, message_text) ==
    IF ~gathering_exists THEN "no_gathering"
    ELSE IF message_text = "" THEN "empty_message"
    ELSE "ok"

NoConn ==
    [state |-> "closed", user |-> 0, gid |-> 0, pc |-> "idle", text |-> "", msg |-> 0]

NoFrame == [type |-> "none", id |-> 0]
ErrorFrame == [type |-> "error", id |-> 0]
MessageFrame(i) == [type |-> "message", id |-> i]

\* no frame goes out to any client
Quiet == [c \in ConnIds |-> NoFrame]

\* an error frame to the sender only
ErrorTo(c) == [Quiet EXCEPT ![c] = ErrorFrame]

\* ------------------------------------------------ rate_limit and responses
\* the decorated handlers: key_prefix -> rate, split at "/"
RateOf(key_prefix) ==
    CASE key_prefix = "login" -> [limit |-> 5, period |-> "m"]
      [] key_prefix = "email" -> [limit |-> 3, period |-> "h"]
      [] key_prefix = "password_reset" -> [limit |-> 5, period |-> "h"]

\* decorators.py:36-51: the limit and the length of the window in seconds
parse_rate(rate) ==
    IF rate.limit \in Int
    THEN [limit |-> rate.limit,
          seconds |-> CASE rate.period = "m" -> 60
                        [] rate.period = "h" -> 3600
                        [] rate.period = "d" -> 86400
                        [] OTHER -> 60]
    ELSE [limit |-> 10, seconds |-> 60]

\* the handler followed here: email_rate_limit
Prefixes == {"email"}

\* requests: the method, the authenticated user (0 for anonymous), the
\* X-Forwarded-For list and REMOTE_ADDR
Requests ==
    {[method |-> m, user |-> u, forwarded |-> <<"10.0.0.1", "10.0.0.9">>,
      remote |-> "10.0.0.9"] : m \in {"POST", "GET"}, u \in {0, 1}}
        \cup {[method |-> "POST", user |-> 0, forwarded |-> <<>>, remote |-> "10.0.0.1"]}

\* decorators.py:54-62
identifier(request) ==
    IF request.user # 0 THEN <<"user", request.user>>
    ELSE IF request.forwarded # <<>> THEN <<"ip", request.forwarded[1]>>
    ELSE <<"ip", request.remote>>

Identifiers == {identifier(r) : r \in Requests}

cache_key(key_prefix, id) == <<"rate_limit", key_prefix, id>>
reset_key(key_prefix, id) == <<"rate_limit_reset", key_prefix, id>>

\* addresses a request carries; RawEmails are two spellings of one address
\* as the client sends them
Emails == {"a@example.com", "b@example.com"}
RawEmails == {"a@example.com", " a@example.com"}

CacheKeys ==
    {cache_key(k, i) : k \in Prefixes, i \in Identifiers}
        \cup {reset_key(k, i) : k \in Prefixes, i \in Identifiers}
        \cup {<<k, e>> : k \in {"signup_verify_code", "signup_email_verified",
                                "signup_resend_flag"}, e \in RawEmails}

Missing == [value |-> 0, expires |-> 0]

\* a key is there until its timeout has run out
Live(entry, t) == entry.expires > t

\* cache.get(key, default)
cache_get(c, key, default, t) ==
    IF Live(c[key], t) THEN c[key].value ELSE default

\* variant: the limit is compared with > instead of >=
rate_limit_decision_off_by_one(current_count, reset_live, limit) ==
    IF current_count = 0 \/ ~reset_live THEN "new_window"
    ELSE IF current_count > limit THEN "too_many_requests"
    ELSE "incr"

\* decorators.py:70-88: what the wrapper does with the counter it has read
rate_limit_decision(current_count, reset_live, limit) ==
    IF current_count = 0 \/ ~reset_live THEN "new_window"
    ELSE IF current_count >= limit THEN "too_many_requests"
    ELSE "incr"

\* exception classes a handler raises: the class name and the names of the
\* classes it derives from, itself included
Exc(name, bases) == [name |-> name, mro |-> {name, "Exception"} \cup bases]

Exceptions ==
    {Exc("ValueError", {}), Exc("JSONDecodeError", {"ValueError"}),
     Exc("ValidationError", {"APIException"}), Exc("TokenError", {}),
     Exc("KeyError", {"LookupError"}), Exc("PermissionError", {"OSError"}),
     Exc("FileNotFoundError", {"OSError"}), Exc("AttributeError", {}),
     Exc("DoesNotExist", {"ObjectDoesNotExist"}), Exc("TypeError", {}),
     Exc("IntegrityError", {"DatabaseError"})}

\* isinstance(exception, cls)
isinstance(e, cls) == cls \in e.mro

\* "DoesNotExist" in exception.__class__.__name__, over the names above
names_DoesNotExist(e) == e.name = "DoesNotExist"

\* APIResponse.from_exception: the status code of the response
from_exception(e) ==
    IF e.name = "ValidationError" THEN "400"
    ELSE IF e.name = "TokenError" THEN "400"
    ELSE IF isinstance(e, "ValueError") THEN "400"
    ELSE IF isinstance(e, "KeyError") THEN "400"
    ELSE IF isinstance(e, "PermissionError") THEN "403"
    ELSE IF /\ isinstance(e, "FileNotFoundError") \/ isinstance(e, "AttributeError")
            /\ names_DoesNotExist(e)
         THEN "404"
    ELSE "500"

\* what the decorated view does: it returns 200 or raises
Returns == [name |-> "return", mro |-> {}]

Outcomes == {Returns} \cup Exceptions

\* the view's try/except around its service call
view_response(outcome) ==
    IF outcome = Returns THEN "200" ELSE from_exception(outcome)

\* --------------------------------------------------------------- accounts
\* a null DateTimeField
NoTime == 0 - 1

\* AuthenticationService.login: failures after which the account is locked,
\* and the seconds the lock lasts
lockout_attempts == 5
lockout_seconds == 1800

\* the passwords a request tries against the one every account was created with
Passwords == {"right", "wrong"}

NoUser == [id |-> 0]

\* a row of the table users
NewUser(id, email, joined_type) ==
    [id |-> id, email |-> email, joined_type |-> joined_type,
     failed_login_attempts |-> 0, last_failed_login |-> NoTime,
     is_active |-> TRUE, is_deleted |-> FALSE,
     deleted_at |-> NoTime, deletion_scheduled_at |-> NoTime]

\* every row of the table (UserQuerySet.with_deleted)
with_deleted(rows) == {rows[u] : u \in {v \in DOMAIN rows : rows[v] # NoUser}}

\* UserQuerySet.active
active(q) == {r \in q : ~r.is_deleted}

\* UserManager.get_queryset: what User.objects starts from
objects(rows) == active(with_deleted(rows))

\* User.objects.get(email=email), NoUser standing for DoesNotExist
get_by_email(rows, email) ==
    IF \E r \in objects(rows) : r.email = email
    THEN CHOOSE r \in objects(rows) : r.email = email
    ELSE NoUser

\* the lock check of login before the credentials are looked at
lockout_check_one_more(user, t) ==
    IF user = NoUser THEN "pass"
    ELSE IF user.failed_login_attempts > lockout_attempts
            /\ user.last_failed_login # NoTime
         THEN IF t - user.last_failed_login < lockout_seconds
              THEN "locked" ELSE "reset"
    ELSE "pass"

lockout_check(user, t) ==
    IF user = NoUser THEN "pass"
    ELSE IF user.failed_login_attempts >= lockout_attempts
            /\ user.last_failed_login # NoTime
         THEN IF t - user.last_failed_login < lockout_seconds
              THEN "locked" ELSE "reset"
    ELSE "pass"

\* UserLoginSerializer.validate: authenticate() finds the account through
\* User.objects, checks the password and refuses an inactive account
authenticate(rows, email, password) ==
    LET user == get_by_email(rows, email)
    IN  user # NoUser /\ password = "right" /\ user.is_active

\* ----------------------------------------------------------------- signup
\* cache timeouts of the signup views, in seconds
verify_code_timeout == 300
verified_timeout == 300
resend_timeout == 30

\* the six-digit codes random.randint draws
Codes == {111111, 222222}

\* DRF's EmailField strips the address it validates; the views key the cache
\* by the address as sent
strip(email) == IF email = " a@example.com" THEN "a@example.com" ELSE email

code_key(email) == <<"signup_verify_code", email>>
verified_key(email) == <<"signup_email_verified", email>>
resend_flag_key(email) == <<"signup_resend_flag", email>>

\* cache.set(key, value, timeout) and cache.delete(key)
cache_set(c, key, value, timeout, t) ==
    [c EXCEPT ![key] = [value |-> value, expires |-> t + timeout]]

cache_delete(c, key) == [c EXCEPT ![key] = Missing]

\* AuthenticationService.signup up to the insert: the status the view answers
signup_outcome_skips_flag(verified, valid, taken) ==
    IF ~valid \/ taken THEN "400" ELSE "201"

signup_outcome(verified, valid, taken) ==
    IF ~verified THEN from_exception(Exc("ValueError", {}))
    ELSE IF ~valid \/ taken THEN from_exception(Exc("ValidationError", {"APIException"}))
    ELSE "201"

\* VerifySignUpCodeView.post up to the cache writes
verify_outcome(cached_code, code) ==
    IF cached_code = 0 THEN "400"
    ELSE IF cached_code # code THEN "400"
    ELSE "200"

\* ------------------------------------------------------- account deletion
\* timezone.timedelta(days=90), in seconds
deletion_delay == 90 * 86400

\* AuthenticationService.delete_account up to the writes; "" is no password
delete_account_outcome(user, password) ==
    IF user.is_deleted THEN "already_deleted"
    ELSE IF user.joined_type = "normal" /\ password = "" THEN "password_required"
    ELSE IF user.joined_type = "normal" /\ password # "right" THEN "wrong_password"
    ELSE "ok"

\* the address delete_account leaves in place of the user's
deleted_email(id) == "deleted_" \o ToString(id) \o "@deleted.com"

\* the queryset permanently_delete_expired_users iterates over
expired_users(rows, t) ==
    {r \in objects(rows) : /\ r.is_deleted
                           /\ r.deletion_scheduled_at # NoTime
                           /\ r.deletion_scheduled_at <= t}

\* -------------------------------------------------------------------- Q&A
MaxPosts == 2

PostIds == 1..MaxPosts

NoPost == [id |-> 0]

\* Answer.objects.get(id=answer_id), NoPost standing for DoesNotExist
get_post(rows, id) ==
    IF \E r \in rows : r.id = id THEN CHOOSE r \in rows : r.id = id ELSE NoPost

\* AnswerDetailView.delete up to the delete: the status it answers; user 0 is
\* a request without credentials
answer_delete_outcome(answer, user) ==
    IF user = 0 THEN "401"
    ELSE IF answer = NoPost THEN "404"
    ELSE IF answer.user # user THEN "403"
    ELSE "200"

\* ------------------------------------------------------------ bookkeeping
\* what the caller observes: the operation and how it ended; `raced` is a
\* ghost flag of the statement-level transactions below
Result(op, result, raced) == [op |-> op, result |-> result, raced |-> raced]

Call(op, result) == Result(op, result, FALSE)

NoCall == Call("none", "none")

NoGathering == [id |-> 0]
NoMember == [id |-> 0]

IdleTx ==
    [pc |-> "idle", user |-> 0, gid |-> 0, mid |-> 0,
     g |-> NoGathering, m |-> NoMember, seen |-> FALSE, raced |-> FALSE,
     value |-> 0]

Init ==
    /\ gatherings = <<>>
    /\ members = {}
    /\ nextGathering = 1
    /\ nextMember = 1
    /\ tx = [p \in Procs |-> IdleTx]
    /\ last = NoCall
    /\ conns = [c \in ConnIds |-> NoConn]
    /\ groups = [gid \in GatheringIds |-> {}]
    /\ chat_messages = {}
    /\ nextMessage = 1
    /\ user_message_times = [u \in Users |-> <<>>]
    /\ frames = Quiet
    /\ now = 0
    /\ cache = [k \in CacheKeys |-> Missing]
    /\ handled = [i \in Identifiers |-> <<>>]
    /\ users = [u \in Users |-> NoUser]
    /\ nextUser = 1
    /\ questions = {}
    /\ answers = {}
    /\ nextPost = [question |-> 1, answer |-> 1]

\* the store and the workers are left as they are; only the result is recorded
Fails(call) ==
    /\ last' = call
    /\ UNCHANGED <<gatherings, members, nextGathering, nextMember, tx, web, site>>

\* ------------------------------------------- operations, one atomic step
\* variant: the leader's membership row is not created
create_gathering_without_leader(u, max) ==
    /\ nextGathering <= MaxGatherings
    /\ nextMember <= MaxMemberId
    /\ gatherings' = gatherings @@
          (nextGathering :> [id |-> nextGathering, user |-> u, max_members |-> max,
                             current_members |-> 1, status |-> "recruiting"])
    /\ nextGathering' = nextGathering + 1
    /\ last' = Call("create_gathering", "ok")
    /\ UNCHANGED <<members, nextMember, tx, web, site>>

\* GatheringService.create_gathering (max_members validated by the serializer)
create_gathering(u, max) ==
    /\ nextGathering <= MaxGatherings
    /\ nextMember <= MaxMemberId
    /\ gatherings' = gatherings @@
          (nextGathering :> [id |-> nextGathering, user |-> u, max_members |-> max,
                             current_members |-> 1, status |-> "recruiting"])
    /\ members' = members \cup
          {NewMember(nextMember, u, nextGathering, "leader", "approved")}
    /\ nextGathering' = nextGathering + 1
    /\ nextMember' = nextMember + 1
    /\ last' = Call("create_gathering", "ok")
    /\ UNCHANGED <<tx, web, site>>

join_gathering(u, gid) ==
    /\ JoinLocks(gid) \cap Held = {}
    /\ IF gid \notin DOMAIN gatherings
       THEN Fails(Call("join_gathering", "no_gathering"))
       ELSE LET g == gatherings[gid]
                res == join_outcome(g, exists_active(members, u, gid), members, u)
            IN  IF res # "ok"
                THEN Fails(Call("join_gathering", res))
                ELSE /\ nextMember <= MaxMemberId
                     /\ members' = members \cup
                           {NewMember(nextMember, u, gid, "participant", "pending")}
                     /\ nextMember' = nextMember + 1
                     /\ last' = Call("join_gathering", "ok")
                     /\ UNCHANGED <<gatherings, nextGathering, tx, web, site>>

approve_member(mid, u) ==
    IF ~HasMember(members, mid)
    THEN Fails(Call("approve_member", "no_member"))
    ELSE LET m == MemberById(members, mid)
             g == gatherings[m.gathering]
             res == approve_outcome(m, g, u)
             new == approve(m, g)
         IN  /\ ApproveLocks(m) \cap Held = {}
             /\ IF res # "ok"
                THEN Fails(Call("approve_member", res))
                ELSE /\ members' = UpdateRow(members, m, new.m)
                     /\ gatherings' = [gatherings EXCEPT ![g.id] = new.g]
                     /\ last' = Call("approve_member", "ok")
                     /\ UNCHANGED <<nextGathering, nextMember, tx, web, site>>

reject_member(mid, u) ==
    IF ~HasMember(members, mid)
    THEN Fails(Call("reject_member", "no_member"))
    ELSE LET m == MemberById(members, mid)
             g == gatherings[m.gathering]
             res == reject_outcome(m, g, u)
         IN  /\ MemberLock(mid) \notin Held
             /\ IF res # "ok"
                THEN Fails(Call("reject_member", res))
                ELSE /\ members' = UpdateRow(members, m, reject(m))
                     /\ last' = Call("reject_member", "ok")
                     /\ UNCHANGED <<gatherings, nextGathering, nextMember, tx, web, site>>

leave_gathering(u, gid) ==
    IF ActiveOf(members, u, gid) = {}
    THEN Fails(Call("leave_gathering", "not_member"))
    ELSE LET m == CHOOSE r \in ActiveOf(members, u, gid) : TRUE
             g == gatherings[gid]
             res == leave_outcome(m)
             new == leave(m, g)
         IN  /\ {MemberLock(m.id), GatheringLock(gid)} \cap Held = {}
             /\ IF res # "ok"
                THEN Fails(Call("leave_gathering", res))
                ELSE /\ members' = UpdateRow(members, m, new.m)
                     /\ gatherings' = [gatherings EXCEPT ![gid] = new.g]
                     /\ last' = Call("leave_gathering", "ok")
                     /\ UNCHANGED <<nextGathering, nextMember, tx, web, site>>

cancel_join_request(u, gid) ==
    IF PendingOf(members, u, gid) = {}
    THEN Fails(Call("cancel_join_request", "no_pending_request"))
    ELSE LET m == CHOOSE r \in PendingOf(members, u, gid) : TRUE
         IN  /\ MemberLock(m.id) \notin Held
             /\ members' = members \ {m}
             /\ last' = Call("cancel_join_request", "ok")
             /\ UNCHANGED <<gatherings, nextGathering, nextMember, tx, web, site>>

remove_member(gid, mid, u) ==
    IF gid \notin DOMAIN gatherings
    THEN Fails(Call("remove_member", "no_gathering"))
    ELSE IF gatherings[gid].user # u
    THEN Fails(Call("remove_member", "not_leader"))
    ELSE IF ~\E r \in members : r.id = mid /\ r.gathering = gid /\ r.is_active
    THEN Fails(Call("remove_member", "no_member"))
    ELSE LET m == MemberById(members, mid)
             g == gatherings[gid]
             new == leave(m, g)
         IN  /\ {MemberLock(mid), GatheringLock(gid)} \cap Held = {}
             /\ IF is_leader(m)
                THEN Fails(Call("remove_member", "leader_cannot_be_removed"))
                ELSE /\ IF is_approved(m)
                        THEN /\ members' = UpdateRow(members, m, new.m)
                             /\ gatherings' = [gatherings EXCEPT ![gid] = new.g]
                        ELSE /\ members' = members \ {m}
                             /\ UNCHANGED gatherings
                     /\ last' = Call("remove_member", "ok")
                     /\ UNCHANGED <<nextGathering, nextMember, tx, web, site>>

change_gathering_status(gid, u, new_status) ==
    IF gid \notin DOMAIN gatherings
    THEN Fails(Call("change_gathering_status", "no_gathering"))
    ELSE IF gatherings[gid].user # u
    THEN Fails(Call("change_gathering_status", "not_leader"))
    ELSE IF new_status \notin valid_transitions(gatherings[gid].status)
    THEN Fails(Call("change_gathering_status", "invalid_transition"))
    ELSE /\ GatheringLock(gid) \notin Held
         /\ gatherings' = [gatherings EXCEPT ![gid].status = new_status]
         /\ last' = Call("change_gathering_status", "ok")
         /\ UNCHANGED <<members, nextGathering, nextMember, tx, web, site>>

\* GatheringDetailView.patch with {"max_members": value}
update_gathering(gid, u, value) ==
    IF gid \notin DOMAIN gatherings
    THEN Fails(Call("update_gathering", "no_gathering"))
    ELSE IF ~update_valid(gatherings[gid], value)
    THEN Fails(Call("update_gathering", "validation_error"))
    ELSE IF gatherings[gid].user # u
    THEN Fails(Call("update_gathering", "not_leader"))
    ELSE /\ GatheringLock(gid) \notin Held
         /\ gatherings' = [gatherings EXCEPT ![gid].max_members = value]
         /\ last' = Call("update_gathering", "ok")
         /\ UNCHANGED <<members, nextGathering, nextMember, tx, web, site>>

\* gathering.delete(): the membership rows go with it (on_delete=CASCADE)
delete_gathering(gid, u) ==
    IF gid \notin DOMAIN gatherings
    THEN Fails(Call("delete_gathering", "no_gathering"))
    ELSE LET res == delete_outcome(gatherings[gid], u) IN
         IF res # "ok"
         THEN Fails(Call("delete_gathering", res))
         ELSE /\ ({GatheringLock(gid)} \cup
                    {MemberLock(r.id) : r \in {x \in members : x.gathering = gid}})
                      \cap Held = {}
              /\ gatherings' = [i \in DOMAIN gatherings \ {gid} |-> gatherings[i]]
              /\ members' = {r \in members : r.gathering # gid}
              /\ chat_messages' = {r \in chat_messages : r.gathering # gid}
              /\ last' = Call("delete_gathering", "ok")
              /\ UNCHANGED <<site, nextGathering, nextMember, tx, conns, groups, nextMessage,
                             user_message_times, frames, now, cache, handled>>

Next ==
    \/ \E u \in Users, max \in MinCapacity..MaxCapacity : create_gathering(u, max)
    \/ \E u \in Users, gid \in GatheringIds : join_gathering(u, gid)
    \/ \E mid \in MemberIds, u \in Users : approve_member(mid, u)
    \/ \E mid \in MemberIds, u \in Users : reject_member(mid, u)
    \/ \E u \in Users, gid \in GatheringIds : leave_gathering(u, gid)
    \/ \E u \in Users, gid \in GatheringIds : cancel_join_request(u, gid)
    \/ \E gid \in GatheringIds, mid \in MemberIds, u \in Users : remove_member(gid, mid, u)
    \/ \E gid \in GatheringIds, u \in Users, s \in GatheringStatus :
          change_gathering_status(gid, u, s)
    \/ \E gid \in GatheringIds, u \in Users, v \in 1..MaxCapacity :
          update_gathering(gid, u, v)
    \/ \E gid \in GatheringIds, u \in Users : delete_gathering(gid, u)

Spec == Init /\ [][Next]_vars

\* ------------------------------------------------ check_recruitment_deadlines
\* gathering_service.py:299-309: one UPDATE of the recruiting gatherings whose
\* recruitment_end lies before today; `expired` is the set of gatherings whose
\* date has passed
check_recruitment_deadlines(expired) ==
    LET hit == {gid \in DOMAIN gatherings \cap expired :
                   gatherings[gid].status = "recruiting"}
    IN  /\ {GatheringLock(gid) : gid \in hit} \cap Held = {}
        /\ gatherings' = [gid \in DOMAIN gatherings |->
                             IF gid \in hit
                             THEN [gatherings[gid] EXCEPT !.status = "recruitment_complete"]
                             ELSE gatherings[gid]]
        /\ last' = Call("check_recruitment_deadlines", ToString(Cardinality(hit)))
        /\ UNCHANGED <<members, nextGathering, nextMember, tx, web, site>>

NextStatus ==
    \/ Next
    \/ \E expired \in SUBSET GatheringIds : check_recruitment_deadlines(expired)

SpecStatus == Init /\ [][NextStatus]_vars

\* ------------------------- join_gathering and approve_member, by statement
\* the transaction of worker p ends (commit or rollback): its locks are released
Done(p) == [tx EXCEPT ![p] = IdleTx]

\* member_service.py:121, the locking SELECT: it waits while another
\* transaction holds one of the rows, then reads the committed rows
ApproveRead(p, t) ==
    IF ~HasMember(members, t.mid)
    THEN /\ tx' = Done(p)
         /\ last' = Result("approve_member", "no_member", t.raced)
    ELSE LET m == MemberById(members, t.mid) IN
         /\ last' = NoCall
         /\ IF ApproveLocks(m) \cap HeldByOthers(p) = {}
            THEN tx' = [tx EXCEPT ![p] = [t EXCEPT !.pc = "approve_locked", !.m = m,
                                             !.g = gatherings[m.gathering],
                                             !.gid = m.gathering]]
            ELSE /\ t.pc = "idle"
                 /\ tx' = [tx EXCEPT ![p] = [t EXCEPT !.pc = "approve_wait"]]

\* a worker receives approve_member(mid, u) and issues the locking SELECT
approve_begin(p, mid, u) ==
    /\ tx[p].pc = "idle"
    /\ ApproveRead(p, [IdleTx EXCEPT !.mid = mid, !.user = u])
    /\ UNCHANGED <<gatherings, members, nextGathering, nextMember, web, site>>

\* the locking SELECT of a waiting approve_member is granted
approve_select(p) ==
    /\ tx[p].pc = "approve_wait"
    /\ ApproveRead(p, tx[p])
    /\ UNCHANGED <<gatherings, members, nextGathering, nextMember, web, site>>

\* ghost: an approve_member waiting for the row lock while worker p takes the
\* last seat of the same gathering for another member has raced for that seat
ApproveRaced(p, g) ==
    [q \in Procs |->
        IF /\ q # p
           /\ tx[q].pc = "approve_wait"
           /\ tx[q].mid # tx[p].mid
           /\ \E r \in members : r.id = tx[q].mid /\ r.gathering = g.id
                                              /\ r.status = "pending"
           /\ g.user = tx[q].user
           /\ is_full(g)
        THEN [tx[q] EXCEPT !.raced = TRUE]
        ELSE IF q = p THEN IdleTx ELSE tx[q]]

\* member_service.py:124-139: the checks on the objects read by the SELECT, the
\* two UPDATEs of approve() / increment_members() and the commit
approve_commit(p) ==
    /\ tx[p].pc = "approve_locked"
    /\ LET m == tx[p].m
           g == tx[p].g
           res == approve_outcome(m, g, tx[p].user)
           new == approve(m, g)
       IN  /\ {MemberLock(m.id), GatheringLock(g.id)} \cap HeldByOthers(p) = {}
           /\ IF res # "ok"
              THEN /\ UNCHANGED <<gatherings, members, web, site>>
                   /\ tx' = Done(p)
              ELSE /\ members' = UpdateRow(members, m, new.m)
                   /\ gatherings' = [gatherings EXCEPT
                          ![g.id].current_members = new.g.current_members,
                          ![g.id].status = new.g.status]
                   /\ tx' = ApproveRaced(p, new.g)
           /\ last' = Result("approve_member", res, tx[p].raced)
    /\ UNCHANGED <<nextGathering, nextMember, web, site>>

\* member_service.py:73-76, the locking SELECT of the gathering (it waits while
\* another transaction holds the row), then the exists() query on the committed
\* membership rows
JoinRead(p, t) ==
    IF t.gid \notin DOMAIN gatherings
    THEN /\ tx' = Done(p)
         /\ last' = Result("join_gathering", "no_gathering", t.raced)
    ELSE /\ last' = NoCall
         /\ IF JoinLocks(t.gid) \cap HeldByOthers(p) = {}
            THEN tx' = [tx EXCEPT ![p] = [t EXCEPT !.pc = "join_locked",
                             !.g = gatherings[t.gid],
                             !.seen = exists_active(members, t.user, t.gid)]]
            ELSE /\ t.pc = "idle"
                 /\ tx' = [tx EXCEPT ![p] = [t EXCEPT !.pc = "join_wait"]]

\* a worker receives join_gathering(u, gid) and issues the locking SELECT
join_begin(p, u, gid) ==
    /\ tx[p].pc = "idle"
    /\ JoinRead(p, [IdleTx EXCEPT !.gid = gid, !.user = u])
    /\ UNCHANGED <<gatherings, members, nextGathering, nextMember, web, site>>

\* the locking SELECT of a waiting join_gathering is granted
join_select(p) ==
    /\ tx[p].pc = "join_wait"
    /\ JoinRead(p, tx[p])
    /\ UNCHANGED <<gatherings, members, nextGathering, nextMember, web, site>>

\* ghost: a join_gathering of the same user for the same gathering that waits
\* for the row lock while worker p inserts the row has raced with it
JoinRaced(p) ==
    [q \in Procs |->
        IF /\ q # p
           /\ tx[q].pc = "join_wait"
           /\ tx[q].user = tx[p].user
           /\ tx[q].gid = tx[p].gid
        THEN [tx[q] EXCEPT !.raced = TRUE]
        ELSE IF q = p THEN IdleTx ELSE tx[q]]

\* member_service.py:77-100: the checks, the INSERT and the commit
join_insert(p) ==
    /\ tx[p].pc = "join_locked"
    /\ LET res == join_outcome(tx[p].g, tx[p].seen, members, tx[p].user) IN
       /\ IF res # "ok"
          THEN /\ UNCHANGED <<members, nextMember, web, site>>
               /\ tx' = Done(p)
          ELSE /\ nextMember <= MaxMemberId
               /\ members' = members \cup
                     {NewMember(nextMember, tx[p].user, tx[p].gid, "participant", "pending")}
               /\ nextMember' = nextMember + 1
               /\ tx' = JoinRaced(p)
       /\ last' = Result("join_gathering", res, tx[p].raced)
    /\ UNCHANGED <<gatherings, nextGathering, web, site>>

\* the other operations, run between the statements above; a call that ends
\* with an error changes no row and is left out
Effective(A) == A /\ last'.result = "ok"

\* a handshake that ends with the connection accepted
Effective2(A) == A /\ last'.result = "accepted"

NextConc ==
    \/ \E u \in Users, max \in MinCapacity..MaxCapacity : create_gathering(u, max)
    \/ \E p \in Procs, mid \in MemberIds, u \in Users : approve_begin(p, mid, u)
    \/ \E p \in Procs : approve_select(p)
    \/ \E p \in Procs : approve_commit(p)
    \/ \E p \in Procs, u \in Users, gid \in GatheringIds : join_begin(p, u, gid)
    \/ \E p \in Procs : join_select(p)
    \/ \E p \in Procs : join_insert(p)
    \/ \E mid \in MemberIds, u \in Users : Effective(reject_member(mid, u))
    \/ \E u \in Users, gid \in GatheringIds : Effective(leave_gathering(u, gid))
    \/ \E u \in Users, gid \in GatheringIds : Effective(cancel_join_request(u, gid))

SpecConc == Init /\ [][NextConc]_vars

\* --------------- reject_member and cancel_join_request, by statement
\* member_service.py:160-168: the SELECT of reject_member takes no lock; the
\* checks are made on the row as read
reject_begin(p, mid, u) ==
    /\ tx[p].pc = "idle"
    /\ IF ~HasMember(members, mid)
       THEN /\ last' = Call("reject_member", "no_member")
            /\ UNCHANGED tx
       ELSE LET m == MemberById(members, mid)
                res == reject_outcome(m, gatherings[m.gathering], u)
            IN  IF res # "ok"
                THEN /\ last' = Call("reject_member", res)
                     /\ UNCHANGED tx
                ELSE /\ last' = NoCall
                     /\ tx' = [tx EXCEPT ![p] = [IdleTx EXCEPT !.pc = "reject_read",
                                  !.mid = mid, !.user = u, !.m = m,
                                  !.gid = m.gathering]]
    /\ UNCHANGED <<gatherings, members, nextGathering, nextMember, web, site>>

\* models.py:284-286 and the commit: UPDATE ... SET status = 'rejected' WHERE
\* id = ..., which waits for the row lock and then writes whatever the row
\* has become; `raced` tells that the row was no longer pending
reject_commit(p) ==
    /\ tx[p].pc = "reject_read"
    /\ MemberLock(tx[p].mid) \notin HeldByOthers(p)
    /\ IF HasMember(members, tx[p].mid)
       THEN LET row == MemberById(members, tx[p].mid)
            IN  /\ members' = UpdateRow(members, row, [row EXCEPT !.status = "rejected"])
                /\ last' = Result("reject_member", "ok", row.status # "pending")
       ELSE /\ UNCHANGED members
            /\ last' = Call("reject_member", "database_error")
    /\ tx' = Done(p)
    /\ UNCHANGED <<gatherings, nextGathering, nextMember, web, site>>

\* member_service.py:234-239: the SELECT of cancel_join_request takes no lock
cancel_begin(p, u, gid) ==
    /\ tx[p].pc = "idle"
    /\ IF PendingOf(members, u, gid) = {}
       THEN /\ last' = Call("cancel_join_request", "no_pending_request")
            /\ UNCHANGED tx
       ELSE LET m == CHOOSE r \in PendingOf(members, u, gid) : TRUE
            IN  /\ last' = NoCall
                /\ tx' = [tx EXCEPT ![p] = [IdleTx EXCEPT !.pc = "cancel_read",
                             !.mid = m.id, !.user = u, !.m = m, !.gid = gid]]
    /\ UNCHANGED <<gatherings, members, nextGathering, nextMember, web, site>>

\* member_service.py:242 and the commit: DELETE ... WHERE id = ..., which waits
\* for the row lock and then deletes the row whatever it has become
cancel_commit(p) ==
    /\ tx[p].pc = "cancel_read"
    /\ MemberLock(tx[p].mid) \notin HeldByOthers(p)
    /\ members' = {r \in members : r.id # tx[p].mid}
    /\ last' = Result("cancel_join_request", "ok",
                      \E r \in members : r.id = tx[p].mid /\ r.status # "pending")
    /\ tx' = Done(p)
    /\ UNCHANGED <<gatherings, nextGathering, nextMember, web, site>>

NextReject ==
    \/ \E u \in Users, max \in MinCapacity..MaxCapacity : create_gathering(u, max)
    \/ \E u \in Users, gid \in GatheringIds : Effective(join_gathering(u, gid))
    \/ \E p \in Procs, mid \in MemberIds, u \in Users : approve_begin(p, mid, u)
    \/ \E p \in Procs : approve_select(p)
    \/ \E p \in Procs : approve_commit(p)
    \/ \E p \in Procs, mid \in MemberIds, u \in Users : reject_begin(p, mid, u)
    \/ \E p \in Procs : reject_commit(p)
    \/ \E p \in Procs, u \in Users, gid \in GatheringIds : cancel_begin(p, u, gid)
    \/ \E p \in Procs : cancel_commit(p)

SpecReject == Init /\ [][NextReject]_vars

\* no transaction is in flight
Quiescent == \A p \in Procs : tx[p].pc = "idle"

\* ------------------------------------------------ remove_member, by statement
\* member_service.py:267-283 and models.py:290-293: the gathering is read
\* without a lock, the member row with one (the call starts when the lock is
\* free); a row that is not approved is deleted and the call is over, an
\* approved one is set inactive and leave() reads the gathering again, still
\* without a lock
remove_begin(p, gid, mid, u) ==
    /\ tx[p].pc = "idle"
    /\ MemberLock(mid) \notin HeldByOthers(p)
    /\ IF gid \notin DOMAIN gatherings
       THEN /\ last' = Call("remove_member", "no_gathering")
            /\ UNCHANGED <<tx, members>>
       ELSE IF gatherings[gid].user # u
       THEN /\ last' = Call("remove_member", "not_leader")
            /\ UNCHANGED <<tx, members>>
       ELSE IF ~\E r \in members : r.id = mid /\ r.gathering = gid /\ r.is_active
       THEN /\ last' = Call("remove_member", "no_member")
            /\ UNCHANGED <<tx, members>>
       ELSE LET m == MemberById(members, mid)
            IN  IF is_leader(m)
                THEN /\ last' = Call("remove_member", "leader_cannot_be_removed")
                     /\ UNCHANGED <<tx, members>>
                ELSE IF ~is_approved(m)
                THEN /\ members' = members \ {m}
                     /\ last' = Call("remove_member", "ok")
                     /\ UNCHANGED tx
                ELSE /\ last' = NoCall
                     /\ tx' = [tx EXCEPT ![p] = [IdleTx EXCEPT !.pc = "remove_locked",
                                  !.mid = mid, !.user = u, !.m = m, !.gid = gid,
                                  !.g = gatherings[gid]]]
                     /\ UNCHANGED members
    /\ UNCHANGED <<gatherings, nextGathering, nextMember, web, site>>

\* models.py:201-207 and the commit: decrement_members() on the gathering as
\* read, UPDATE ... SET current_members = ..., status = ... WHERE id = ...,
\* which waits for the row lock; `raced` tells that the counter had changed
\* since it was read
remove_commit(p) ==
    /\ tx[p].pc = "remove_locked"
    /\ GatheringLock(tx[p].gid) \notin HeldByOthers(p)
    /\ LET new == leave(tx[p].m, tx[p].g)
           gid == tx[p].gid
       IN  /\ members' = UpdateRow(members, tx[p].m, new.m)
           /\ gatherings' = IF tx[p].g.current_members > 0
                            THEN [gatherings EXCEPT
                                     ![gid].current_members = new.g.current_members,
                                     ![gid].status = new.g.status]
                            ELSE gatherings
           /\ last' = Result("remove_member", "ok",
                             gatherings[gid].current_members # tx[p].g.current_members)
    /\ tx' = Done(p)
    /\ UNCHANGED <<nextGathering, nextMember, web, site>>

NextRemove ==
    \/ \E u \in Users, max \in MinCapacity..MaxCapacity : create_gathering(u, max)
    \/ \E u \in Users, gid \in GatheringIds : Effective(join_gathering(u, gid))
    \/ \E p \in Procs, mid \in MemberIds, u \in Users : approve_begin(p, mid, u)
    \/ \E p \in Procs : approve_select(p)
    \/ \E p \in Procs : approve_commit(p)
    \/ \E u \in Users, gid \in GatheringIds : Effective(leave_gathering(u, gid))
    \/ \E p \in Procs, gid \in GatheringIds, mid \in MemberIds, u \in Users :
          remove_begin(p, gid, mid, u)
    \/ \E p \in Procs : remove_commit(p)

SpecRemove == Init /\ [][NextRemove]_vars

\* ---------------------------------------------- update_gathering, by statement
\* GatheringDetailView.patch with {"max_members": value}, gathering_views.py:
\* 263-269: the view reads the gathering and the serializer validates the
\* value against that instance
update_begin(p, gid, u, value) ==
    /\ tx[p].pc = "idle"
    /\ IF gid \notin DOMAIN gatherings
       THEN /\ last' = Call("update_gathering", "no_gathering")
            /\ UNCHANGED tx
       ELSE IF ~update_valid(gatherings[gid], value)
       THEN /\ last' = Call("update_gathering", "validation_error")
            /\ UNCHANGED tx
       ELSE /\ last' = NoCall
            /\ tx' = [tx EXCEPT ![p] = [IdleTx EXCEPT !.pc = "update_validated",
                         !.user = u, !.gid = gid, !.value = value]]
    /\ UNCHANGED <<gatherings, members, nextGathering, nextMember, web, site>>

\* gathering_service.py:131-145: the service reads the gathering again, without
\* a lock, and checks the owner and the status
update_read(p) ==
    /\ tx[p].pc = "update_validated"
    /\ LET gid == tx[p].gid IN
       IF gid \notin DOMAIN gatherings
       THEN /\ last' = Call("update_gathering", "no_gathering")
            /\ tx' = Done(p)
       ELSE IF gatherings[gid].user # tx[p].user
       THEN /\ last' = Call("update_gathering", "not_leader")
            /\ tx' = Done(p)
       ELSE IF gatherings[gid].status \in {"finished", "in_progress"}
       THEN /\ last' = Call("update_gathering", "not_allowed")
            /\ tx' = Done(p)
       ELSE /\ last' = NoCall
            /\ tx' = [tx EXCEPT ![p].pc = "update_read", ![p].g = gatherings[gid]]
    /\ UNCHANGED <<gatherings, members, nextGathering, nextMember, web, site>>

\* gathering_service.py:148-151: setattr and gathering.save() without
\* update_fields, an UPDATE of every column with the values of the instance,
\* which waits for the row lock
update_save(p) ==
    /\ tx[p].pc = "update_read"
    /\ tx[p].gid \in DOMAIN gatherings
    /\ GatheringLock(tx[p].gid) \notin HeldByOthers(p)
    /\ gatherings' = [gatherings EXCEPT
                         ![tx[p].gid] = [tx[p].g EXCEPT !.max_members = tx[p].value]]
    /\ last' = Result("update_gathering", "ok", gatherings[tx[p].gid] # tx[p].g)
    /\ tx' = Done(p)
    /\ UNCHANGED <<members, nextGathering, nextMember, web, site>>

NextUpdate ==
    \/ \E u \in Users, max \in MinCapacity..MaxCapacity : create_gathering(u, max)
    \/ \E u \in Users, gid \in GatheringIds : Effective(join_gathering(u, gid))
    \/ \E p \in Procs, mid \in MemberIds, u \in Users : approve_begin(p, mid, u)
    \/ \E p \in Procs : approve_select(p)
    \/ \E p \in Procs : approve_commit(p)
    \/ \E p \in Procs, gid \in GatheringIds, u \in Users, v \in 1..MaxCapacity :
          update_begin(p, gid, u, v)
    \/ \E p \in Procs : update_read(p)
    \/ \E p \in Procs : update_save(p)

SpecUpdate == Init /\ [][NextUpdate]_vars

\* ------------------------------------------------------- ChatConsumer
\* the membership tables and the HTTP side, which the consumer never writes
store == <<gatherings, members, nextGathering, nextMember, tx>>

\* ChatConsumer.connect on a new connection c
connect(c, token, gid) ==
    /\ conns[c].state = "closed"
    /\ LET u == get_user_from_token(token) IN
       IF u = 0
       THEN /\ last' = Call("connect", "unauthenticated")
            /\ UNCHANGED <<conns, groups>>
       ELSE IF ~check_member_permission(u, gid)
       THEN /\ last' = Call("connect", "not_member")
            /\ UNCHANGED <<conns, groups>>
       ELSE /\ groups' = [groups EXCEPT ![gid] = @ \cup {c}]
            /\ conns' = [conns EXCEPT ![c] =
                            [NoConn EXCEPT !.state = "open", !.user = u, !.gid = gid]]
            /\ last' = Call("connect", "accepted")
    /\ frames' = Quiet
    /\ UNCHANGED <<site, store, chat_messages, nextMessage, user_message_times, now,
                   cache, handled>>

\* ChatConsumer.disconnect, between two frames
disconnect(c) ==
    /\ conns[c].state = "open"
    /\ conns[c].pc = "idle"
    /\ groups' = [groups EXCEPT ![conns[c].gid] = @ \ {c}]
    /\ conns' = [conns EXCEPT ![c] = NoConn]
    /\ frames' = Quiet
    /\ last' = Call("disconnect", "ok")
    /\ UNCHANGED <<site, store, chat_messages, nextMessage, user_message_times, now,
                   cache, handled>>

\* ChatConsumer.receive up to the rate limit check (consumers.py:102-113)
receive(c, frame) ==
    /\ conns[c].state = "open"
    /\ conns[c].pc = "idle"
    /\ IF ~frame.json
       THEN /\ frames' = ErrorTo(c)
            /\ last' = Call("receive", "bad_frame")
            /\ UNCHANGED <<conns, user_message_times>>
       ELSE LET u == conns[c].user
                r == check_rate_limit(user_message_times[u], now)
            IN  /\ user_message_times' = [user_message_times EXCEPT ![u] = r.times]
                /\ IF r.ok
                   THEN /\ conns' = [conns EXCEPT ![c].pc = "checked",
                                                  ![c].text = frame.message]
                        /\ frames' = Quiet
                        /\ last' = Call("receive", "passed")
                   ELSE /\ frames' = ErrorTo(c)
                        /\ last' = Call("receive", "rate_limited")
                        /\ UNCHANGED conns
    /\ UNCHANGED <<site, store, groups, chat_messages, nextMessage, now, cache, handled>>

\* ChatConsumer.save_message (consumers.py:120, 170-197)
save_message(c) ==
    /\ conns[c].pc = "checked"
    /\ LET k == conns[c]
           res == save_outcome(k.gid \in DOMAIN gatherings, k.text)
       IN  /\ last' = Call("save_message", res)
           /\ IF res # "ok"
              THEN /\ frames' = ErrorTo(c)
                   /\ conns' = [conns EXCEPT ![c].pc = "idle", ![c].text = ""]
                   /\ UNCHANGED <<chat_messages, nextMessage>>
              ELSE /\ chat_messages' = chat_messages \cup
                          {[id |-> nextMessage, gathering |-> k.gid, user |-> k.user,
                            created_at |-> now]}
                   /\ nextMessage' = nextMessage + 1
                   /\ conns' = [conns EXCEPT ![c].pc = "saved", ![c].msg = nextMessage,
                                             ![c].text = ""]
                   /\ frames' = Quiet
    /\ UNCHANGED <<site, store, groups, user_message_times, now, cache, handled>>

\* channel_layer.group_send and the chat_message handlers of the subscribers
\* (consumers.py:126-128, 136-144)
group_send(c) ==
    /\ conns[c].pc = "saved"
    /\ frames' = [d \in ConnIds |->
                    IF d \in groups[conns[c].gid]
                    THEN MessageFrame(conns[c].msg) ELSE NoFrame]
    /\ conns' = [conns EXCEPT ![c].pc = "idle", ![c].msg = 0]
    /\ last' = Call("group_send", "ok")
    /\ UNCHANGED <<site, store, groups, chat_messages, nextMessage, user_message_times,
                   now, cache, handled>>

\* d seconds pass; the clock is read at this grain, and a frame is handled
\* within one reading
Tick(d) ==
    /\ now < MaxTicks * d
    /\ \A c \in ConnIds : conns[c].pc = "idle"
    /\ now' = now + d
    /\ UNCHANGED <<site, store, last, conns, groups, chat_messages, nextMessage,
                   user_message_times, frames, cache, handled>>

\* who may connect: the membership operations and the handshake
NextConnect ==
    \/ \E u \in Users, max \in MinCapacity..MaxCapacity : create_gathering(u, max)
    \/ \E u \in Users, gid \in GatheringIds : Effective(join_gathering(u, gid))
    \/ \E mid \in MemberIds, u \in Users : Effective(approve_member(mid, u))
    \/ \E u \in Users, gid \in GatheringIds : Effective(leave_gathering(u, gid))
    \/ \E gid \in GatheringIds, u \in Users : Effective(delete_gathering(gid, u))
    \/ \E c \in ConnIds, t \in Tokens, gid \in GatheringIds : connect(c, t, gid)
    \/ \E c \in ConnIds : disconnect(c)

SpecConnect == Init /\ [][NextConnect]_vars

\* the chat of a gathering, at one instant
NextChat ==
    \/ \E u \in Users : create_gathering(u, MinCapacity)
    \/ \E gid \in GatheringIds, u \in Users : Effective(delete_gathering(gid, u))
    \/ \E c \in ConnIds, u \in Users, gid \in GatheringIds :
          Effective2(connect(c, [kind |-> "valid", user_id |-> u], gid))
    \/ \E c \in ConnIds : disconnect(c)
    \/ \E c \in ConnIds, f \in Inbound : receive(c, f)
    \/ \E c \in ConnIds : save_message(c)
    \/ \E c \in ConnIds : group_send(c)

SpecChat == Init /\ [][NextChat]_vars

\* the owner's chat over time
NextRate ==
    \/ \E u \in Users : create_gathering(u, MinCapacity)
    \/ \E c \in ConnIds, u \in Users, gid \in GatheringIds :
          Effective2(connect(c, [kind |-> "valid", user_id |-> u], gid))
    \/ \E c \in ConnIds, f \in Inbound : receive(c, f)
    \/ \E c \in ConnIds : save_message(c)
    \/ \E c \in ConnIds : group_send(c)
    \/ Tick(time_window \div 2)

SpecRate == Init /\ [][NextRate]_vars

\* ------------------------------------------------------------- rate_limit
\* the wrapper of rate_limit(key_prefix, rate) around a view, and the view
request(key_prefix, req, outcome) ==
    LET id == identifier(req)
        rate == parse_rate(RateOf(key_prefix))
        ck == cache_key(key_prefix, id)
        rk == reset_key(key_prefix, id)
        fresh == [cache EXCEPT ![ck] = [value |-> 1, expires |-> now + rate.seconds],
                               ![rk] = [value |-> rate.seconds,
                                        expires |-> now + rate.seconds]]
        decision == rate_limit_decision(cache_get(cache, ck, 0, now),
                                        Live(cache[rk], now), rate.limit)
    IN  /\ IF req.method # "POST"
           THEN /\ last' = Call(key_prefix, view_response(outcome))
                /\ UNCHANGED <<cache, handled>>
           ELSE IF decision = "too_many_requests"
           THEN /\ last' = Call(key_prefix, "429")
                /\ UNCHANGED <<cache, handled>>
           ELSE /\ cache' = IF decision = "new_window" THEN fresh
                            ELSE [cache EXCEPT ![ck].value = @ + 1]
                /\ handled' = [handled EXCEPT ![id] = Append(@, now)]
                /\ last' = Call(key_prefix, view_response(outcome))
        /\ UNCHANGED <<site, store, conns, groups, chat_messages, nextMessage,
                       user_message_times, frames, now>>

NextHttp ==
    \/ \E k \in Prefixes, r \in Requests, o \in Outcomes : request(k, r, o)
    \/ Tick(parse_rate(RateOf("email")).seconds \div 2)

SpecHttp == Init /\ [][NextHttp]_vars

\* --------------------------------------------------------------- accounts
JoinedTypes == {"normal", "kakao"}

\* UserManager.create_user; users.email is unique over every row
create_user(email, joined_type) ==
    /\ nextUser <= NumUsers
    /\ IF \E r \in with_deleted(users) : r.email = email
       THEN Fails(Call("create_user", "integrity_error"))
       ELSE /\ users' = [users EXCEPT ![nextUser] = NewUser(nextUser, email, joined_type)]
            /\ nextUser' = nextUser + 1
            /\ last' = Call("create_user", "ok")
            /\ UNCHANGED <<store, web, questions, answers, nextPost>>

\* AuthenticationService.login
login(email, password) ==
    LET user == get_by_email(users, email)
        check == lockout_check(user, now)
        cleared == IF check = "reset"
                   THEN [users EXCEPT ![user.id].failed_login_attempts = 0]
                   ELSE users
    IN  IF check = "locked" THEN Fails(Call("login", "locked"))
        ELSE /\ IF authenticate(cleared, email, password)
                THEN /\ users' = [cleared EXCEPT ![user.id].failed_login_attempts = 0]
                     /\ last' = Call("login", "ok")
                ELSE /\ users' = IF user # NoUser
                                 THEN [cleared EXCEPT
                                          ![user.id].failed_login_attempts = @ + 1,
                                          ![user.id].last_failed_login = now]
                                 ELSE cleared
                     /\ last' = Call("login", "invalid_credentials")
             /\ UNCHANGED <<store, web, nextUser, questions, answers, nextPost>>

NextLogin ==
    \/ \E e \in Emails, j \in JoinedTypes : create_user(e, j)
    \/ \E e \in Emails, p \in Passwords : login(e, p)
    \/ Tick(lockout_seconds \div 2)

SpecLogin == Init /\ [][NextLogin]_vars

\* ----------------------------------------------------------------- signup
\* SignUpEmailCodeView.post; `sent` is whether the mail server took the message
signup_email_code(email, code, sent) ==
    /\ IF \E r \in objects(users) : r.email = email
       THEN /\ last' = Call("signup_email_code", "400")
            /\ UNCHANGED cache
       ELSE IF cache_get(cache, resend_flag_key(email), 0, now) # 0
       THEN /\ last' = Call("signup_email_code", "429")
            /\ UNCHANGED cache
       ELSE LET stored == cache_set(cache, code_key(email), code,
                                    verify_code_timeout, now)
            IN  IF sent
                THEN /\ cache' = cache_set(stored, resend_flag_key(email), 1,
                                           resend_timeout, now)
                     /\ last' = Call("signup_email_code", "200")
                ELSE /\ cache' = stored
                     /\ last' = Call("signup_email_code",
                                     from_exception(Exc("SMTPException", {"OSError"})))
    /\ UNCHANGED <<site, store, conns, groups, chat_messages, nextMessage,
                   user_message_times, frames, now, handled>>

\* VerifySignUpCodeView.post
verify_signup_code(email, code) ==
    LET res == verify_outcome(cache_get(cache, code_key(email), 0, now), code)
    IN  /\ last' = Call("verify_signup_code", res)
        /\ cache' = IF res = "200"
                    THEN cache_set(cache_delete(cache, code_key(email)),
                                   verified_key(email), 1, verified_timeout, now)
                    ELSE cache
        /\ UNCHANGED <<site, store, conns, groups, chat_messages, nextMessage,
                       user_message_times, frames, now, handled>>

\* UserSignUpView.post and AuthenticationService.signup; `valid` is whether
\* the other fields pass UserSignUpSerializer
signup(email, valid) ==
    LET res == signup_outcome(cache_get(cache, verified_key(email), 0, now) # 0,
                              valid,
                              \E r \in with_deleted(users) : r.email = strip(email))
    IN  /\ nextUser <= NumUsers
        /\ last' = Call("signup", res)
        /\ IF res = "201"
           THEN /\ users' = [users EXCEPT ![nextUser] = NewUser(nextUser, strip(email), "")]
                /\ nextUser' = nextUser + 1
                /\ cache' = cache_delete(cache, verified_key(email))
           ELSE UNCHANGED <<users, nextUser, cache>>
        /\ UNCHANGED <<store, conns, groups, chat_messages, nextMessage,
                       user_message_times, frames, now, handled, questions,
                       answers, nextPost>>

NextSignup ==
    \/ \E e \in RawEmails, c \in Codes, s \in BOOLEAN : signup_email_code(e, c, s)
    \/ \E e \in RawEmails, c \in Codes : verify_signup_code(e, c)
    \/ \E e \in RawEmails, v \in BOOLEAN : signup(e, v)
    \/ Tick(verified_timeout \div 2)

SpecSignup == Init /\ [][NextSignup]_vars

\* ------------------------------------------------------- account deletion
\* AuthenticationService.delete_account(user, password)
delete_account(u, password) ==
    /\ users[u] # NoUser
    /\ LET res == delete_account_outcome(users[u], password)
       IN  IF res # "ok" THEN Fails(Call("delete_account", res))
           ELSE /\ users' = [users EXCEPT
                               ![u].is_deleted = TRUE,
                               ![u].is_active = FALSE,
                               ![u].deleted_at = now,
                               ![u].deletion_scheduled_at = now + deletion_delay,
                               ![u].email = deleted_email(u)]
                /\ last' = Call("delete_account", "ok")
                /\ UNCHANGED <<store, web, nextUser, questions, answers, nextPost>>

\* AuthenticationService.permanently_delete_expired_users; a deleted user
\* takes the questions and answers it wrote along
permanently_delete_expired_users ==
    LET gone == {r.id : r \in expired_users(users, now)}
    IN  /\ users' = [u \in Users |-> IF u \in gone THEN NoUser ELSE users[u]]
        /\ questions' = {q \in questions : q.user \notin gone}
        /\ answers' = {a \in answers :
                          /\ a.user \notin gone
                          /\ \A q \in questions : q.id = a.question => q.user \notin gone}
        /\ last' = Call("permanently_delete_expired_users", ToString(Cardinality(gone)))
        /\ UNCHANGED <<store, web, nextUser, nextPost>>

NextAccount ==
    \/ \E e \in Emails, j \in JoinedTypes : create_user(e, j)
    \/ \E u \in Users, p \in Passwords \cup {""} : delete_account(u, p)
    \/ permanently_delete_expired_users
    \/ Tick(deletion_delay \div 2)

SpecAccount == Init /\ [][NextAccount]_vars

\* -------------------------------------------------------------------- Q&A
\* QuestionListView.post
question_create(u) ==
    /\ nextPost.question <= MaxPosts
    /\ questions' = questions \cup {[id |-> nextPost.question, user |-> u]}
    /\ nextPost' = [nextPost EXCEPT !.question = @ + 1]
    /\ last' = Call("question_create", "201")
    /\ UNCHANGED <<store, web, users, nextUser, answers>>

\* AnswerListView.post; `valid` is whether the content passes the serializer
answer_create(u, qid, valid) ==
    /\ nextPost.answer <= MaxPosts
    /\ IF get_post(questions, qid) = NoPost
       THEN Fails(Call("answer_create", "404"))
       ELSE IF ~valid
       THEN Fails(Call("answer_create",
                       from_exception(Exc("ValidationError", {"APIException"}))))
       ELSE /\ answers' = answers \cup
                            {[id |-> nextPost.answer, question |-> qid, user |-> u]}
            /\ nextPost' = [nextPost EXCEPT !.answer = @ + 1]
            /\ last' = Call("answer_create", "201")
            /\ UNCHANGED <<store, web, users, nextUser, questions>>

\* AnswerDetailView.delete
answer_delete(aid, u) ==
    LET answer == get_post(answers, aid)
        res == answer_delete_outcome(answer, u)
    IN  IF res # "200" THEN Fails(Call("answer_delete", res))
        ELSE /\ answers' = answers \ {answer}
             /\ last' = Call("answer_delete", "200")
             /\ UNCHANGED <<store, web, users, nextUser, questions, nextPost>>

NextAnswers ==
    \/ \E u \in Users : question_create(u)
    \/ \E u \in Users, q \in PostIds, v \in BOOLEAN : answer_create(u, q, v)
    \/ \E a \in PostIds, u \in Users \cup {0} : answer_delete(a, u)

SpecAnswers == Init /\ [][NextAnswers]_vars

\* ================================================================ claims
Owner(gid) == gatherings[gid].user

ApprovedActive(gid) ==
    {r \in members : r.gathering = gid /\ r.status = "approved" /\ r.is_active}

\* C1: in every state reached by create_gathering, join_gathering,
\* approve_member, reject_member, leave_gathering, remove_member and
\* cancel_join_request calls, each executed atomically, every gathering's
\* current_members equals the number of its membership rows that are approved
\* and active.
C1_CounterMatchesApproved ==
    \A gid \in DOMAIN gatherings :
        gatherings[gid].current_members = Cardinality(ApprovedActive(gid))

\* C1 witness: the counter has gone up and down: a gathering with two approved
\* active members (current_members = 2) after another member has left.
C1_Witness ==
    \E gid \in DOMAIN gatherings :
        /\ gatherings[gid].current_members = 2
        /\ Cardinality(ApprovedActive(gid)) = 2
        /\ \E r \in members : r.gathering = gid /\ ~r.is_active

C2_NoOverbooking ==
    \A gid \in DOMAIN gatherings :
        /\ gatherings[gid].current_members <= gatherings[gid].max_members
        /\ Cardinality(ApprovedActive(gid)) <= gatherings[gid].max_members

\* C2 witness: an approve_member that was waiting for the row lock while another
\* approve_member took the last seat for a different member has been refused
\* for lack of seats.
C2_Witness == last = Result("approve_member", "full", TRUE)

\* C4: in every state, also when join_gathering calls of the same user run at
\* once, there is at most one active membership row per (user, gathering).
C4_OneActiveRowPerPair ==
    \A u \in Users, gid \in GatheringIds :
        Cardinality(ActiveOf(members, u, gid)) <= 1

\* C4 witness: a join_gathering that was waiting for the row lock while another
\* join_gathering of the same user inserted the row has been refused as a
\* duplicate.
C4_Witness == last = Result("join_gathering", "already_joined", TRUE)

\* C5: leave_gathering called by the gathering's leader and remove_member
\* aimed at the leader's membership row always fail; the leader's row stays
\* as it is, active and approved, and current_members does not change.
C5_LeaderStays ==
    [][\A gid \in DOMAIN gatherings :
        \A r \in {x \in members : x.gathering = gid /\ is_leader(x)} :
            \A u \in Users :
                (\/ u = r.user /\ leave_gathering(u, gid)
                 \/ remove_member(gid, r.id, u))
                => /\ last'.result # "ok"
                   /\ r.is_active /\ r.status = "approved"
                   /\ r \in members'
                   /\ gatherings'[gid] = gatherings[gid]]_vars

\* C5 witness: the leader's own leave_gathering call has just been refused.
C5_Witness == last = Call("leave_gathering", "leader_cannot_leave")

\* the membership state of a (user, gathering) pair
MemberState(rows, u, gid) ==
    LET mine == {r \in rows : r.user = u /\ r.gathering = gid} IN
    IF mine = {} THEN "not_member"
    ELSE IF \E r \in mine : r.is_active
         THEN (CHOOSE r \in mine : r.is_active).status
         ELSE "inactive"

\* C6: for every user and every existing gathering the membership state changes
\* only by not_member -> pending (join), pending -> approved (approve),
\* pending -> rejected (reject), approved -> inactive (leave or removal) and
\* pending -> not_member (cancel).
C6_OnlyListedTransitions ==
    [][\A u \in Users, gid \in DOMAIN gatherings :
        LET a == MemberState(members, u, gid)
            b == MemberState(members', u, gid)
        IN  a # b =>
            \/ a = "not_member" /\ b = "pending" /\ last'.op = "join_gathering"
            \/ a = "pending" /\ b = "approved" /\ last'.op = "approve_member"
            \/ a = "pending" /\ b = "rejected" /\ last'.op = "reject_member"
            \/ a = "approved" /\ b = "inactive"
                  /\ last'.op \in {"leave_gathering", "remove_member"}
            \/ a = "pending" /\ b = "not_member"
                  /\ last'.op = "cancel_join_request"]_vars

\* C7: join_gathering succeeds only if the gathering is recruiting, has a free
\* seat, is not owned by the requester, and the requester has no active row in
\* it; a success adds exactly one row, pending and participant, and leaves
\* current_members alone; a failure adds no row.
C7_JoinGuarded ==
    [][\A u \in Users, gid \in GatheringIds :
        join_gathering(u, gid) =>
            /\ last'.op = "join_gathering"
            /\ gatherings' = gatherings
            /\ IF last'.result = "ok"
               THEN /\ gid \in DOMAIN gatherings
                    /\ gatherings[gid].status = "recruiting"
                    /\ gatherings[gid].current_members < gatherings[gid].max_members
                    /\ Owner(gid) # u
                    /\ ActiveOf(members, u, gid) = {}
                    /\ members \subseteq members'
                    /\ Cardinality(members' \ members) = 1
                    /\ \A r \in members' \ members :
                          /\ r.user = u /\ r.gathering = gid /\ r.is_active
                          /\ r.status = "pending" /\ r.role = "participant"
               ELSE members' = members]_vars

\* C7 witness: a join_gathering call has just created a pending row.
C7_Witness ==
    /\ last = Call("join_gathering", "ok")
    /\ \E r \in members : r.status = "pending" /\ r.role = "participant"

Outsider(u, gid) == u # Owner(gid) /\ MemberState(members, u, gid) = "not_member"

\* C9 as stated: in a gathering with max_members = 1 and one pending member,
\* approving that member sets current_members to 1 and the status to
\* recruitment_complete, and a following join of another user is refused for
\* lack of seats.
C9_AsStated ==
    [][/\ \A mid \in MemberIds :
            (/\ HasMember(members, mid)
             /\ MemberById(members, mid).status = "pending"
             /\ gatherings[MemberById(members, mid).gathering].max_members = 1
             /\ approve_member(mid, Owner(MemberById(members, mid).gathering)))
            => LET g2 == gatherings'[MemberById(members, mid).gathering]
               IN  /\ last'.result = "ok"
                   /\ g2.current_members = 1
                   /\ g2.status = "recruitment_complete"
       /\ \A u \in Users, gid \in DOMAIN gatherings :
            (/\ last = Call("approve_member", "ok")
             /\ gatherings[gid].max_members = 1
             /\ Outsider(u, gid)
             /\ join_gathering(u, gid))
            => last'.result = "full"]_vars

\* C9 amended: in a gathering with max_members = 2 whose only approved member
\* is its leader (current_members = 1), approving a pending member sets
\* current_members to 2 and the status to recruitment_complete; a following
\* join of another user is refused, with the not-recruiting error (the status
\* is checked before the seats), and adds no row.
C9_LastSeat ==
    [][/\ \A mid \in MemberIds :
            (/\ HasMember(members, mid)
             /\ MemberById(members, mid).status = "pending"
             /\ gatherings[MemberById(members, mid).gathering].max_members = 2
             /\ gatherings[MemberById(members, mid).gathering].current_members = 1
             /\ approve_member(mid, Owner(MemberById(members, mid).gathering)))
            => LET g2 == gatherings'[MemberById(members, mid).gathering]
               IN  /\ last'.result = "ok"
                   /\ g2.current_members = 2
                   /\ g2.status = "recruitment_complete"
       /\ \A u \in Users, gid \in DOMAIN gatherings :
            (/\ last = Call("approve_member", "ok")
             /\ gatherings[gid].max_members = 2
             /\ gatherings[gid].current_members = 2
             /\ Outsider(u, gid)
             /\ join_gathering(u, gid))
            => /\ last'.result = "not_recruiting"
               /\ members' = members]_vars

\* C9 witness: after the last seat of a gathering with max_members = 2 was
\* taken, an outsider's join has just been refused.
C9_Witness ==
    /\ last = Call("join_gathering", "not_recruiting")
    /\ \E gid \in DOMAIN gatherings :
          /\ gatherings[gid].max_members = 2
          /\ gatherings[gid].current_members = 2
          /\ gatherings[gid].status = "recruitment_complete"
          /\ Cardinality(ApprovedActive(gid)) = 2
          /\ \E u \in Users : Outsider(u, gid)

\* the effect of a departure on the rows of member m and of its gathering
Departed(m) ==
    LET g == gatherings[m.gathering]
        g2 == gatherings'[m.gathering]
    IN  /\ [m EXCEPT !.is_active = FALSE] \in members'
        /\ m \notin members'
        /\ g2.current_members = g.current_members - 1
        /\ g2.status = IF g.status = "recruitment_complete"
                       THEN "recruiting" ELSE g.status

C12_CancelGuarded ==
    [][\A u \in Users, gid \in GatheringIds :
        cancel_join_request(u, gid)
        => /\ IF last'.result = "ok"
              THEN \E m \in members :
                      /\ m.user = u /\ m.gathering = gid
                      /\ m.is_active /\ m.status = "pending"
                      /\ members' = members \ {m}
              ELSE members' = members
           /\ gatherings' = gatherings
           /\ \A r \in members : r.status \in {"approved", "rejected"} => r \in members']_vars

\* C12 witness: a request has just been withdrawn while a rejected row of
\* another user is on the table, and a cancel by a user whose row is not pending
\* has been refused before.
C12_Witness ==
    /\ last = Call("cancel_join_request", "ok")
    /\ \E r \in members : r.status = "rejected"
    /\ nextMember > MaxMemberId

\* C13 as stated: delete_gathering by the owner fails and keeps the gathering
\* and its memberships when current_members > 1, and succeeds, removing the
\* gathering, when current_members is exactly 1.
C13_AsStated ==
    [][\A gid \in DOMAIN gatherings :
        delete_gathering(gid, Owner(gid))
        => IF gatherings[gid].current_members > 1
           THEN /\ last'.result # "ok"
                /\ gatherings' = gatherings
                /\ members' = members
           ELSE gatherings[gid].current_members = 1
                => /\ last'.result = "ok"
                   /\ gid \notin DOMAIN gatherings']_vars

\* C13: delete_gathering by the owner fails and keeps the gathering and its
\* memberships when current_members > 1 or the status is in_progress or
\* finished; it succeeds, removing the gathering with its membership rows, when
\* current_members is exactly 1 and the status is recruiting or
\* recruitment_complete.
C13_DeleteGuarded ==
    [][\A gid \in DOMAIN gatherings :
        delete_gathering(gid, Owner(gid))
        => LET g == gatherings[gid] IN
           IF g.current_members > 1 \/ g.status \in {"in_progress", "finished"}
           THEN /\ last'.result # "ok"
                /\ gatherings' = gatherings
                /\ members' = members
           ELSE g.current_members = 1
                => /\ last'.result = "ok"
                   /\ gid \notin DOMAIN gatherings'
                   /\ \A r \in members' : r.gathering # gid]_vars

\* C13 witness: a gathering for which a second membership row had been created
\* has just been deleted by its owner, and its membership rows went with it.
C13_Witness ==
    /\ last = Call("delete_gathering", "ok")
    /\ DOMAIN gatherings = {}
    /\ members = {}
    /\ nextMember > 2

LeaderRows(gid) == {r \in members : r.gathering = gid /\ is_leader(r)}

\* C14: in every reachable state every existing gathering has exactly one
\* membership row with role leader, and it is the owner's row, approved and
\* active.
C14_OneLeader ==
    \A gid \in DOMAIN gatherings :
        /\ Cardinality(LeaderRows(gid)) = 1
        /\ \A r \in LeaderRows(gid) :
              r.user = Owner(gid) /\ r.status = "approved" /\ r.is_active

\* C14 witness: the owner's attempt to remove the leader row has just been
\* refused in a gathering that a participant has left.
C14_Witness ==
    /\ last = Call("remove_member", "leader_cannot_be_removed")
    /\ \E r \in members : ~r.is_active

\* the transitions the owner may request
ListedTransitions ==
    {<<"recruiting", "recruitment_complete">>, <<"recruiting", "in_progress">>,
     <<"recruitment_complete", "recruiting">>, <<"recruitment_complete", "in_progress">>,
     <<"in_progress", "finished">>}

\* C15: change_gathering_status succeeds, setting the requested status, exactly
\* when the caller is the owner and the pair (current status, requested status)
\* is one of the five listed transitions; every other request fails and leaves
\* the gathering rows unchanged.
C15_StatusTransitions ==
    [][\A gid \in DOMAIN gatherings, u \in Users, s \in GatheringStatus :
        change_gathering_status(gid, u, s)
        => IF u = Owner(gid) /\ <<gatherings[gid].status, s>> \in ListedTransitions
           THEN /\ last'.result = "ok"
                /\ gatherings' = [gatherings EXCEPT ![gid].status = s]
           ELSE /\ last'.result # "ok"
                /\ gatherings' = gatherings]_vars

\* C15 witness: the owner's request to change the status of a finished
\* gathering has just been refused.
C15_Witness ==
    /\ last = Call("change_gathering_status", "invalid_transition")
    /\ \E gid \in DOMAIN gatherings : gatherings[gid].status = "finished"

\* the messages of user u stored in the d seconds that end at time t
StoredWithin(u, t, d) ==
    {r \in chat_messages : r.user = u /\ r.created_at <= t /\ t - r.created_at < d}

\* C16: a message frame reaches a client only for a message whose row had been
\* inserted by an earlier step; when save_message fails (empty text, or the
\* gathering is gone) no row is inserted, the sender alone gets an error frame,
\* and no broadcast of that frame is left to do.
C16_BroadcastAfterPersist ==
    [][/\ \A c \in ConnIds :
            frames'[c].type = "message" => frames'[c].id < nextMessage
       /\ \A c \in ConnIds :
            (/\ conns[c].pc = "checked"
             /\ conns[c].text = "" \/ conns[c].gid \notin DOMAIN gatherings
             /\ save_message(c))
            => /\ chat_messages' = chat_messages
               /\ frames' = [d \in ConnIds |-> IF d = c THEN ErrorFrame ELSE NoFrame]
               /\ conns'[c].pc = "idle"]_vars

\* C16 witness: after a message has been stored and broadcast, a frame of a
\* connection whose gathering has been deleted meanwhile has failed to save,
\* with a second connection still subscribed to the group.
C16_Witness ==
    /\ last = Call("save_message", "no_gathering")
    /\ nextMessage > 1
    /\ \E gid \in GatheringIds : Cardinality(groups[gid]) = 2

\* whether the token and the membership tables entitle the bearer to gathering gid
Entitled(token, gid) ==
    /\ token.kind = "valid"
    /\ token.user_id \in Users
    /\ gid \in DOMAIN gatherings
    /\ \/ Owner(gid) = token.user_id
       \/ \E r \in members : /\ r.user = token.user_id /\ r.gathering = gid
                             /\ r.status = "approved" /\ r.is_active

\* C17: a handshake ends with the connection open and in the group of its
\* gathering only if the token is valid, names an existing user, and that user
\* owns the gathering or has an approved active membership in it; every other
\* handshake leaves the connection closed and in no group. A connection that
\* is in a group is an open connection of that gathering.
C17_ConnectGuarded ==
    /\ [](\A gid \in GatheringIds : \A c \in groups[gid] :
             conns[c].state = "open" /\ conns[c].gid = gid)
    /\ [][\A c \in ConnIds, t \in Tokens, gid \in GatheringIds :
            connect(c, t, gid)
            => IF Entitled(t, gid)
               THEN conns'[c].state = "open" => c \in groups'[gid]
               ELSE /\ conns'[c].state = "closed"
                    /\ \A g \in GatheringIds : c \notin groups'[g]]_vars

\* C17 witness: the handshake of a user whose membership is still pending has
\* just been refused, while an approved participant is connected.
C17_Witness ==
    /\ last = Call("connect", "not_member")
    /\ \E r \in members : r.status = "pending"
    /\ \E c \in ConnIds :
          /\ conns[c].state = "open"
          /\ conns[c].user # Owner(conns[c].gid)

\* C18: for every user, the messages stored in any 10 seconds number at most 5;
\* a frame that arrives when 5 messages of its user were stored in the
\* preceding 10 seconds is not stored, is not broadcast, and its sender gets an
\* error frame. (The clock is the one check_rate_limit reads.)
C18_ChatRateLimit ==
    /\ [](\A u \in Users, t \in 0..now :
             Cardinality(StoredWithin(u, t, time_window)) <= max_messages)
    /\ [][\A c \in ConnIds, f \in Inbound :
            (/\ conns[c].state = "open"
             /\ Cardinality(StoredWithin(conns[c].user, now, time_window)) >= max_messages
             /\ receive(c, f))
            => /\ chat_messages' = chat_messages
               /\ frames' = [d \in ConnIds |-> IF d = c THEN ErrorFrame ELSE NoFrame]
               /\ conns'[c].pc = "idle"]_vars

\* C18 witness: a frame has just been refused by the rate limit in the second
\* window of its user, after the entries of the first window had run out.
C18_Witness ==
    /\ last = Call("receive", "rate_limited")
    /\ now >= time_window
    /\ Cardinality(chat_messages) > max_messages

\* the handler runs of identifier id inside the window that the reset key of
\* key_prefix marks, when that window is still open at time t
RunsInWindow(key_prefix, id, t) ==
    LET w == cache[reset_key(key_prefix, id)]
        start == w.expires - parse_rate(RateOf(key_prefix)).seconds
    IN  IF Live(w, t)
        THEN Cardinality({i \in DOMAIN handled[id] : handled[id][i] >= start})
        ELSE 0

StatedStatus(e) ==
    IF isinstance(e, "ValueError") THEN "400"
    ELSE IF isinstance(e, "PermissionError") THEN "403"
    ELSE IF e.name = "DoesNotExist" THEN "404"
    ELSE "500"

\* C20: the response to an exception raised in a view has status 400 for a
\* ValueError, 403 for a PermissionError, 404 for a model's DoesNotExist and 500
\* for every other exception.
C20_AsStated ==
    [][\A k \in Prefixes, r \in Requests, e \in Exceptions :
        (request(k, r, e) /\ last'.result # "429")
        => last'.result = StatedStatus(e)]_vars

\* C21: an account with 5 recorded failed logins is locked: while less than
\* 30 minutes have passed since its last recorded failure every login, the
\* one with the right password included, is refused and records nothing; the
\* first login after that counts from zero again (0 after a success, 1 after
\* a failure), and every successful login leaves the counter at 0.
C21_Lockout ==
    [][\A e \in Emails, p \in Passwords :
         login(e, p) =>
            LET r == get_by_email(users, e)
            IN  r # NoUser =>
                  /\ (/\ r.failed_login_attempts >= 5
                      /\ now - r.last_failed_login < 1800)
                        => last'.result = "locked" /\ users' = users
                  /\ (/\ r.failed_login_attempts >= 5
                      /\ now - r.last_failed_login >= 1800)
                        => /\ last'.result # "locked"
                           /\ users'[r.id].failed_login_attempts =
                                  IF p = "right" THEN 0 ELSE 1
                  /\ last'.result = "ok"
                        => users'[r.id].failed_login_attempts = 0]_vars

\* a login refused by the lock a quarter of an hour after the fifth failure
C21_Witness ==
    /\ last = Call("login", "locked")
    /\ \E u \in Users : /\ users[u] # NoUser
                        /\ users[u].failed_login_attempts = 5
                        /\ users[u].last_failed_login < now

C23_AsStated ==
    [][/\ \A u \in Users, p \in Passwords \cup {""} :
            delete_account(u, p) =>
               /\ users[u].is_deleted
                     => last'.result = "already_deleted" /\ users' = users
               /\ last'.result = "ok"
                     => /\ users'[u].is_deleted /\ ~users'[u].is_active
                        /\ users'[u].email = deleted_email(u)
                        /\ users'[u].deletion_scheduled_at = now + 90 * 86400
               /\ last'.result # "ok" => users' = users
       /\ permanently_delete_expired_users =>
            \A u \in Users :
               (users[u] # NoUser /\ users'[u] = NoUser)
                  <=> /\ users[u] # NoUser
                      /\ users[u].is_deleted
                      /\ users[u].deletion_scheduled_at <= now
       /\ \A u \in Users :
            (users[u] # NoUser /\ users'[u] = NoUser)
               => users[u].is_deleted /\ now - users[u].deleted_at >= 90 * 86400]_vars

\* C24: a delete request on an existing answer by the answer's author or by
\* the author of its question is answered 200 and removes the answer; by any
\* other user it is answered 403 and the answer stays.
C24_AsStated ==
    [][\A a \in PostIds, u \in Users :
         (answer_delete(a, u) /\ get_post(answers, a) # NoPost) =>
            LET answer == get_post(answers, a)
                question == get_post(questions, answer.question)
            IN  IF u = answer.user \/ u = question.user
                THEN last'.result = "200" /\ answers' = answers \ {answer}
                ELSE last'.result = "403" /\ answers' = answers]_vars

\* C25: when approve_member has run concurrently with reject_member or
\* cancel_join_request on one pending membership and all of them have
\* committed, the counter of the gathering counts approved members only:
\* it does not exceed the number of approved active rows.
C25_AsStated ==
    Quiescent =>
       \A gid \in DOMAIN gatherings :
          gatherings[gid].current_members <= Cardinality(ApprovedActive(gid))

\* C26: once the approve_member, leave_gathering and remove_member
\* transactions running on the members of a gathering have all committed,
\* current_members equals the number of approved active membership rows.
C26_AsStated ==
    Quiescent =>
       \A gid \in DOMAIN gatherings :
          gatherings[gid].current_members = Cardinality(ApprovedActive(gid))

\* C27: in every reachable state, also while the owner changes max_members
\* through the update path and approvals take place,
\* 1 <= current_members <= max_members for every gathering.
C27_AsStated ==
    \A gid \in DOMAIN gatherings :
       /\ 1 <= gatherings[gid].current_members
       /\ gatherings[gid].current_members <= gatherings[gid].max_members

\* C28: once a gathering is in_progress or finished, no step of
\* approve_member, leave_gathering, remove_member, change_gathering_status or
\* check_recruitment_deadlines moves it back to recruiting or
\* recruitment_complete.
C28_AsStated ==
    [][\A gid \in DOMAIN gatherings :
          (/\ gatherings[gid].status \in {"in_progress", "finished"}
           /\ gid \in DOMAIN gatherings')
             => gatherings'[gid].status \notin {"recruiting", "recruitment_complete"}]_vars

\* C29: every join_gathering call that creates no pending row fails with one
\* of the ValueErrors of the business rules and leaves the store unchanged,
\* the join of a user whose earlier row for the gathering is inactive included.
C29_AsStated ==
    [][((\E u \in Users, gid \in GatheringIds : join_gathering(u, gid))
          /\ members' = members)
         => /\ last'.result \in {"no_gathering", "already_joined", "own_gathering",
                                  "not_recruiting", "full"}
            /\ UNCHANGED <<gatherings, members>>]_vars

====
